---- MODULE Spec2Model ----
(***************************************************************************)
(* The session / progress / quiz-cache state machine of src/main.py.       *)
(*                                                                         *)
(* Every request handler is an asyncio coroutine: the code between two     *)
(* awaits runs atomically, and the only await of a handler is its call of  *)
(* the language model.  A handler is therefore one action when it returns  *)
(* before calling the model, and two actions (the handler up to the await, *)
(* and its Finish) otherwise.  The handlers waiting for the model are the  *)
(* elements of `pending`.                                                  *)
(*                                                                         *)
(* What a handler returns is an operator of the state it runs in and of    *)
(* its inputs (the ...Response operators); the action takes its state      *)
(* change from the same operator.                                          *)
(***************************************************************************)
EXTENDS Integers, Sequences, FiniteSets, Bags, TLC

VARIABLES
    current_session,  \* memory_storage["current_session"]: None or a session object
    sessions,         \* the session dicts created so far, by object
    quiz_cache,       \* memory_storage["quiz_cache"]: cache key -> questions document
    pending,          \* bag of handlers suspended at `await llm.ainvoke`
    model_replies,    \* how many documents the language model has produced
    served,           \* cache key -> the document generate-quiz last returned
    resp,             \* the response sent last, and the endpoint that sent it
    workload,         \* what the clients and the model do in this run; never changes
    coding_quizzes,   \* memory_storage["coding_quizzes"]: challenge key -> challenge
    extraction        \* the text last given to clean_json_response, and its outcome

vars == <<current_session, sessions, quiz_cache, pending, model_replies, served, resp,
          workload, coding_quizzes, extraction>>

----------------------------------------------------------------------------
(* Program constants *)

TotalLessons == 14      \* `lesson_number < 14`
FallbackLessons == 14   \* len(get_lesson_structure())
PassingGrade == 70      \* `score >= 70`

(* Bounds of the model *)

MaxSessions == 2        \* select-language requests served
MaxInFlight == 2        \* handlers suspended in the model call at once
MaxAnswers == 6         \* longest answer list a client submits
CourseAnswers == 2      \* the same, while the learner follows the whole course
MaxModelReplies == 1    \* documents the model produces; its other calls raise
MaxLessonInput == 2     \* clients ask for lessons 1..MaxLessonInput
ShortCurriculum == 1    \* lessons of the short curriculum the model may produce
MaxQuestions == 2       \* ask-tutor requests in a session
MaxText == 4            \* length of the texts given to clean_json_response
MaxFollowed == 4        \* lessons taken by a learner who will select again

----------------------------------------------------------------------------
(* Values *)

None == 0

Min(a, b) == IF a < b THEN a ELSE b

Range(s) == {s[i] : i \in 1..Len(s)}

\* d[k] = v, installing or overwriting.
Put(d, k, v) == (k :> v) @@ d

\* A questions document: the correct_answer of each of its questions, and
\* the generation it came from.
NoQuiz == [tag |-> "none", correct |-> << >>]

\* The except-branch document of generate_quiz_questions: one question,
\* correct_answer 0, its text fixed by the lesson.
FallbackQuiz == [tag |-> "fallback", correct |-> <<0>>]

\* Documents the model may produce for a quiz prompt: the five questions
\* asked for, and a document without questions.
QuizPool ==
    { [tag |-> "five", correct |-> <<0, 0, 0, 0, 0>>],
      [tag |-> "empty", correct |-> << >>] }

\* The except-branch curriculum of generate_curriculum.
FallbackCurriculum == [has_lessons |-> TRUE, is_list |-> TRUE, n |-> FallbackLessons]

\* Curricula the model may produce, as far as generate_curriculum accepts
\* them (a JSON object whose "lessons", if present, has a length): the 14
\* lessons asked for, a short list, an object without a "lessons" key, and
\* an object whose "lessons" is itself an object (of n members) and no list.
CurriculumPool ==
    { [has_lessons |-> TRUE, is_list |-> TRUE, n |-> FallbackLessons],
      [has_lessons |-> TRUE, is_list |-> TRUE, n |-> ShortCurriculum],
      [has_lessons |-> FALSE, is_list |-> TRUE, n |-> 0],
      [has_lessons |-> TRUE, is_list |-> FALSE, n |-> ShortCurriculum] }

\* QuizSubmission.answers: some 0s followed by some 1s.
AnswersUpTo(longest) ==
    UNION { { [i \in 1..(j + m) |-> IF i <= j THEN 0 ELSE 1] : m \in 0..(longest - j) } :
            j \in 0..longest }

AnswerInputs == AnswersUpTo(workload.answers)

\* lesson numbers clients send
LessonInputs == 1..workload.lessons

\* A learner who follows the course also reads the lesson the session is at
\* and submits its quiz, and tries a number past the curriculum, up to lesson
\* workload.follow; workload.also are further numbers sent to /lesson and
\* /submit-quiz.
CourseInputs ==
    LessonInputs \cup workload.also \cup
        (IF /\ workload.course
            /\ current_session # None
            /\ sessions[current_session].current_lesson <= workload.follow
         THEN {sessions[current_session].current_lesson, FallbackLessons + 1}
         ELSE {})

----------------------------------------------------------------------------
(* The language model *)

CanReply == model_replies < workload.replies

Outcome(doc, replied) == [doc |-> doc, replied |-> replied]

\* generate_quiz_questions: the model's document, or the fallback when the
\* call or the parsing raises.
QuizOutcomes ==
    {Outcome(FallbackQuiz, FALSE)}
        \cup (IF CanReply THEN {Outcome(q, TRUE) : q \in QuizPool} ELSE {})

\* generate_curriculum
CurriculumOutcomes ==
    {Outcome(FallbackCurriculum, FALSE)}
        \cup (IF CanReply THEN {Outcome(c, TRUE) : c \in CurriculumPool} ELSE {})

Count(o) == model_replies' = model_replies + (IF o.replied THEN 1 ELSE 0)

----------------------------------------------------------------------------
(* Requests and responses *)

Reply(status, questions, cached, passed, correct, total, answered) ==
    [status |-> status, questions |-> questions, cached |-> cached,
     passed |-> passed, correct_answers |-> correct, total_questions |-> total,
     answered |-> answered]

\* HTTPException(status_code=status)
Error(status) == Reply(status, NoQuiz, FALSE, FALSE, 0, 0, 0)

\* A 200 response whose body the properties do not read.
Success == Reply(200, NoQuiz, FALSE, FALSE, 0, 0, 0)

\* No response yet: the handler goes on to call the model.
Awaits == Reply(0, NoQuiz, FALSE, FALSE, 0, 0, 0)

Sent(op, r) == [op |-> op, reply |-> r]

Request(op, sess, lesson) == [op |-> op, sess |-> sess, lesson |-> lesson]

Suspend(req) == pending' = pending (+) SetToBag({req})

Resume(req) == pending' = pending (-) SetToBag({req})

\* A client sends a request while fewer than workload.in_flight are unanswered.
CanStart == BagCardinality(pending) < workload.in_flight

PendingOf(op) == {r \in BagToSet(pending) : r.op = op}

\* f"{session_id}_lesson_{lesson_number}"
CacheKey(session_id, lesson_number) == <<session_id, lesson_number>>

\* clean_json_response has not been called.
NotExtracted == [text |-> << >>, done |-> FALSE, raised |-> FALSE, returned |-> << >>]

----------------------------------------------------------------------------
(* Initial state: the module-level memory_storage, no request served yet *)

InitStorage(w) ==
    /\ workload = w
    /\ current_session = None
    /\ sessions = << >>
    /\ quiz_cache = << >>
    /\ pending = EmptyBag
    /\ model_replies = 0
    /\ served = << >>
    /\ resp = Sent("none", Awaits)
    /\ coding_quizzes = << >>

InitWith(w) == InitStorage(w) /\ extraction = NotExtracted

----------------------------------------------------------------------------
(* POST /select-language *)

\* Faulty variant: the progress of the session being replaced is kept.
MergedSession(session_id, curriculum) ==
    [session_id |-> session_id, curriculum |-> curriculum, current_lesson |-> 1,
     completed_lessons |-> IF current_session = None THEN << >>
                           ELSE sessions[current_session].completed_lessons,
     chat_history |-> << >>]

NewSession(session_id, curriculum) ==
    [session_id |-> session_id, curriculum |-> curriculum, current_lesson |-> 1,
     completed_lessons |-> << >>, chat_history |-> << >>]

\* session_id is "session_<timestamp>", distinct from one selection to the
\* next: the number of the session object stands for it.
NextSessionId == Len(sessions) + 1

\* A session dict that neither memory_storage nor a suspended handler refers
\* to is garbage: nothing can read it again.
Freed == [session_id |-> 0,
          curriculum |-> [has_lessons |-> FALSE, is_list |-> TRUE, n |-> 0],
          current_lesson |-> 0, completed_lessons |-> << >>, chat_history |-> << >>]

Referenced(current, handlers) == {current} \cup {r.sess : r \in BagToSet(handlers)}

Collect(objects, current, handlers) ==
    [i \in DOMAIN objects |->
        IF i \in Referenced(current, handlers) THEN objects[i] ELSE Freed]

\* The handler reads nothing before it awaits generate_curriculum.  Clients
\* send workload.sessions selections in a run, one at a time.
SelectLanguage ==
    /\ CanStart
    /\ Len(sessions) < workload.sessions
    /\ PendingOf("select_language") = {}
    /\ Suspend(Request("select_language", None, 0))
    /\ UNCHANGED <<current_session, sessions, quiz_cache, model_replies, served, resp,
                   workload, coding_quizzes, extraction>>

\* The response is built after the session is stored:
\* `curriculum.get("lessons", [])[:3]` raises, answered 500, when "lessons"
\* is no list.
SelectLanguageResponse(curriculum) ==
    IF curriculum.has_lessons /\ ~curriculum.is_list THEN Error(500) ELSE Success

SelectLanguageFinish(req, o) ==
    /\ Resume(req)
    /\ Count(o)
    /\ current_session' = Len(sessions) + 1
    /\ sessions' = Collect(Append(sessions, NewSession(NextSessionId, o.doc)),
                           current_session', pending')
    /\ resp' = Sent("select_language", SelectLanguageResponse(o.doc))
    /\ UNCHANGED <<quiz_cache, served, workload, coding_quizzes, extraction>>

----------------------------------------------------------------------------
(* Looking a lesson up in the curriculum *)

\* `len(curriculum["lessons"]) < lesson_number` answers 404; after it
\* `curriculum["lessons"][lesson_number - 1]` raises, answered 500, when
\* "lessons" is no list (KeyError) or the index lies before the list
\* (IndexError); a curriculum without "lessons" is answered 500.
LessonLookup(curriculum, lesson_number) ==
    IF ~curriculum.has_lessons THEN 500
    ELSE IF curriculum.n < lesson_number THEN 404
    ELSE IF ~curriculum.is_list THEN 500
    ELSE IF lesson_number - 1 < 0 - curriculum.n THEN 500
    ELSE 200

----------------------------------------------------------------------------
(* GET /lesson/{lesson_number} *)

\* Faulty variant: the curriculum is consulted before the lock.
GetLessonCheckLookupFirst(lesson_number) ==
    IF current_session = None THEN 404
    ELSE IF LessonLookup(sessions[current_session].curriculum, lesson_number) # 200
    THEN LessonLookup(sessions[current_session].curriculum, lesson_number)
    ELSE IF lesson_number > sessions[current_session].current_lesson THEN 403
    ELSE 200

GetLessonCheck(lesson_number) ==
    IF current_session = None THEN 404
    ELSE IF lesson_number > sessions[current_session].current_lesson THEN 403
    ELSE LessonLookup(sessions[current_session].curriculum, lesson_number)

\* What the handler answers before any model call.
GetLessonResponse(lesson_number) ==
    IF GetLessonCheck(lesson_number) = 200
    THEN Awaits
    ELSE Error(GetLessonCheck(lesson_number))

GetLesson(lesson_number) ==
    \E r \in {GetLessonResponse(lesson_number)} :
    /\ CanStart
    /\ IF r = Awaits
       THEN /\ Suspend(Request("get_lesson", current_session, lesson_number))
            /\ UNCHANGED resp
       ELSE /\ resp' = Sent("get_lesson", r)
            /\ UNCHANGED pending
    /\ UNCHANGED <<current_session, sessions, quiz_cache, model_replies, served,
                   workload, coding_quizzes, extraction>>

\* generate_lesson_content never raises; the content is returned, not stored.
GetLessonFinish(req) ==
    /\ Resume(req)
    /\ resp' = Sent("get_lesson", Success)
    /\ sessions' = Collect(sessions, current_session, pending')
    /\ UNCHANGED <<current_session, quiz_cache, model_replies, served,
                   workload, coding_quizzes, extraction>>

----------------------------------------------------------------------------
(* GET /generate-quiz/{lesson_number} *)

QuizCheck(lesson_number) ==
    IF current_session = None THEN 404
    ELSE LessonLookup(sessions[current_session].curriculum, lesson_number)

CurrentKey(lesson_number) ==
    CacheKey(sessions[current_session].session_id, lesson_number)

\* Faulty variant: the cache is never consulted.
NeverCached(cache_key) == FALSE

\* `if cache_key in memory_storage["quiz_cache"]`
Cached(cache_key) == cache_key \in DOMAIN quiz_cache

\* {"questions": ..., "cached": ...}
QuizReply(questions, cached) == Reply(200, questions, cached, FALSE, 0, 0, 0)

\* What the handler answers before any model call.
GenerateQuizResponse(lesson_number) ==
    IF QuizCheck(lesson_number) # 200 THEN Error(QuizCheck(lesson_number))
    ELSE IF Cached(CurrentKey(lesson_number))
    THEN QuizReply(quiz_cache[CurrentKey(lesson_number)], TRUE)
    ELSE Awaits

GenerateQuiz(lesson_number) ==
    \E r \in {GenerateQuizResponse(lesson_number)} :
    /\ CanStart
    /\ IF r = Awaits
       THEN /\ Suspend(Request("generate_quiz", current_session, lesson_number))
            /\ UNCHANGED <<resp, served>>
       ELSE /\ resp' = Sent("generate_quiz", r)
            /\ served' = IF r.status = 200
                         THEN Put(served, CurrentKey(lesson_number), r.questions)
                         ELSE served
            /\ UNCHANGED pending
    /\ UNCHANGED <<current_session, sessions, quiz_cache, model_replies,
                   workload, coding_quizzes, extraction>>

\* Faulty variant: the key is computed from the active session after the await.
KeyAfterAwait(req) == CacheKey(sessions[current_session].session_id, req.lesson)

\* The handler's session_id and cache_key were computed before the await.
RequestKey(req) == CacheKey(sessions[req.sess].session_id, req.lesson)

GenerateQuizFinish(req, o) ==
    /\ Resume(req)
    /\ Count(o)
    /\ quiz_cache' = Put(quiz_cache, RequestKey(req), o.doc)
    /\ resp' = Sent("generate_quiz", QuizReply(o.doc, FALSE))
    /\ served' = Put(served, RequestKey(req), o.doc)
    /\ sessions' = Collect(sessions, current_session, pending')
    /\ UNCHANGED <<current_session, workload, coding_quizzes, extraction>>

----------------------------------------------------------------------------
(* POST /submit-quiz *)

\* The loop over enumerate(submission.answers) with `if i < len(questions)`:
\* the positions that get a result.
Compared(questions, answers) == 1..Min(Len(answers), Len(questions))

CorrectCount(questions, answers) ==
    Cardinality({i \in Compared(questions, answers) : answers[i] = questions[i]})

\* Faulty variant: a passing grade of 60.
PassedAtSixty(correct_count, total) == correct_count * 100 >= 60 * total

\* score = (correct_count / len(questions)) * 100; passed = score >= 70.
\* The float product is >= 70 exactly when the exact quotient is.
Passed(correct_count, total) == correct_count * 100 >= PassingGrade * total

\* Faulty variant: the score is taken over the compared positions only.
GradeOverCompared(quiz, answers) ==
    IF Len(quiz.correct) = 0 THEN Error(400)
    ELSE IF Compared(quiz.correct, answers) = {} THEN Error(400)
    ELSE Reply(200, quiz, TRUE,
               Passed(CorrectCount(quiz.correct, answers),
                      Cardinality(Compared(quiz.correct, answers))),
               CorrectCount(quiz.correct, answers),
               Cardinality(Compared(quiz.correct, answers)),
               Cardinality(Compared(quiz.correct, answers)))

\* 400 "No questions found", 400 "No valid answers to evaluate", or the result.
Grade(quiz, answers) ==
    IF Len(quiz.correct) = 0 THEN Error(400)
    ELSE IF Compared(quiz.correct, answers) = {} THEN Error(400)
    ELSE Reply(200, quiz, TRUE,
               Passed(CorrectCount(quiz.correct, answers), Len(quiz.correct)),
               CorrectCount(quiz.correct, answers),
               Len(quiz.correct),
               Cardinality(Compared(quiz.correct, answers)))

\* Faulty variant: a passed lesson is not recorded.
AddCompletedNever(completed_lessons, lesson_number) == completed_lessons

\* Faulty variant: the append without the membership test.
AddCompletedAlways(completed_lessons, lesson_number) ==
    Append(completed_lessons, lesson_number)

\* `if lesson_number not in completed_lessons: completed_lessons.append(...)`
AddCompleted(completed_lessons, lesson_number) ==
    IF lesson_number \in Range(completed_lessons)
    THEN completed_lessons
    ELSE Append(completed_lessons, lesson_number)

\* Faulty variant: the increment also for a lesson already left behind.
AdvancePastLesson(current_lesson, lesson_number) ==
    IF lesson_number <= current_lesson /\ lesson_number < TotalLessons
    THEN current_lesson + 1
    ELSE current_lesson

\* Faulty variant: the increment without the `lesson_number < 14` test.
AdvanceUncapped(current_lesson, lesson_number) ==
    IF lesson_number = current_lesson
    THEN current_lesson + 1
    ELSE current_lesson

\* Faulty variant: the increment for any passed lesson, current or not.
AdvanceAnyLesson(current_lesson, lesson_number) ==
    IF lesson_number < TotalLessons /\ current_lesson < TotalLessons
    THEN current_lesson + 1
    ELSE current_lesson

\* `if lesson_number == current_lesson and lesson_number < 14: current_lesson += 1`
Advance(current_lesson, lesson_number) ==
    IF lesson_number = current_lesson /\ lesson_number < TotalLessons
    THEN current_lesson + 1
    ELSE current_lesson

\* Faulty variant: the progress update without the `if passed:` test.
UpdateProgressAlways(r, sess, lesson_number) ==
    IF r.status = 200
    THEN [sessions EXCEPT
            ![sess].completed_lessons = AddCompleted(@, lesson_number),
            ![sess].current_lesson = Advance(@, lesson_number)]
    ELSE sessions

\* `if passed:` ... on the session object the handler holds
UpdateProgress(r, sess, lesson_number) ==
    IF r.status = 200 /\ r.passed
    THEN [sessions EXCEPT
            ![sess].completed_lessons = AddCompleted(@, lesson_number),
            ![sess].current_lesson = Advance(@, lesson_number)]
    ELSE sessions

\* Faulty variant: the quiz is generated anew for every submission.
SubmitQuizRegenerates(lesson_number, answers) ==
    IF QuizCheck(lesson_number) # 200 THEN Error(QuizCheck(lesson_number))
    ELSE Awaits

\* What the handler answers before any model call.
SubmitQuizResponse(lesson_number, answers) ==
    IF QuizCheck(lesson_number) # 200 THEN Error(QuizCheck(lesson_number))
    ELSE IF Cached(CurrentKey(lesson_number))
    THEN Grade(quiz_cache[CurrentKey(lesson_number)], answers)
    ELSE Awaits

SubmitQuiz(lesson_number, answers) ==
    \E r \in {SubmitQuizResponse(lesson_number, answers)} :
    /\ CanStart
    /\ IF r = Awaits
       THEN /\ Suspend(Request("submit_quiz", current_session, lesson_number))
            /\ UNCHANGED <<resp, sessions>>
       ELSE /\ resp' = Sent("submit_quiz", r)
            /\ sessions' = UpdateProgress(r, current_session, lesson_number)
            /\ UNCHANGED pending
    /\ UNCHANGED <<current_session, quiz_cache, model_replies, served,
                   workload, coding_quizzes, extraction>>

\* submission.answers is first read after the model call, in the grading loop.
SubmitQuizFinish(req, o, answers) ==
    \E r \in {Grade(o.doc, answers)} :
    /\ Resume(req)
    /\ Count(o)
    /\ quiz_cache' = Put(quiz_cache, RequestKey(req), o.doc)
    /\ resp' = Sent("submit_quiz", r)
    /\ sessions' = Collect(UpdateProgress(r, req.sess, req.lesson),
                           current_session, pending')
    /\ UNCHANGED <<current_session, served, workload, coding_quizzes, extraction>>

----------------------------------------------------------------------------
(* POST /ask-tutor *)

\* get_ai_tutor_response: the model's answer, or the fixed apology when the
\* call raises.
TutorOutcomes ==
    {Outcome("apology", FALSE)}
        \cup (IF CanReply THEN {Outcome("answer", TRUE)} ELSE {})

\* What the handler answers before any model call.
AskTutorResponse == IF current_session = None THEN Error(404) ELSE Awaits

\* Questions of the active session answered or being answered.
Asked ==
    Len(sessions[current_session].chat_history)
        + CopiesIn(Request("ask_tutor", current_session, 0), pending)

AskTutor ==
    \E r \in {AskTutorResponse} :
    /\ CanStart
    /\ IF r = Awaits
       THEN /\ Asked < workload.questions
            /\ Suspend(Request("ask_tutor", current_session, 0))
            /\ UNCHANGED resp
       ELSE /\ resp' = Sent("ask_tutor", r)
            /\ UNCHANGED pending
    /\ UNCHANGED <<current_session, sessions, quiz_cache, model_replies, served,
                   workload, coding_quizzes, extraction>>

\* Faulty variant: the new entry replaces the history.
LastChatOnly(chat_history, chat_entry) == <<chat_entry>>

\* `current_session["chat_history"].append(chat_entry)`
AppendChat(chat_history, chat_entry) == Append(chat_history, chat_entry)

\* The entry is appended to the history of the session object the handler
\* holds; the entry is told by the assistant's answer.
AskTutorFinish(req, o) ==
    /\ Resume(req)
    /\ Count(o)
    /\ sessions' = Collect([sessions EXCEPT ![req.sess].chat_history = AppendChat(@, o.doc)],
                           current_session, pending')
    /\ resp' = Sent("ask_tutor", Success)
    /\ UNCHANGED <<current_session, quiz_cache, served, workload, coding_quizzes,
                   extraction>>

----------------------------------------------------------------------------
(* GET /session-status *)

SessionStatusResponse ==
    IF current_session = None
    THEN [status |-> 200, has_active_session |-> FALSE]
    ELSE [status |-> 200, has_active_session |-> TRUE,
          session_id |-> sessions[current_session].session_id,
          current_lesson |-> sessions[current_session].current_lesson,
          completed_lessons |-> sessions[current_session].completed_lessons,
          chat_history_count |-> Len(sessions[current_session].chat_history)]

SessionStatus ==
    /\ CanStart
    /\ resp' = Sent("session_status", SessionStatusResponse)
    /\ UNCHANGED <<current_session, sessions, quiz_cache, pending, model_replies, served,
                   workload, coding_quizzes, extraction>>

----------------------------------------------------------------------------
(* GET /generate-coding-challenge *)

\* Faulty variant: the completed count itself is the milestone.
MilestoneUnrounded(completed_count) == completed_count

\* `(completed_lessons // 4) * 4`
Milestone(completed_count) == (completed_count \div 4) * 4

\* The strings that name challenges.  f"{session_id}_challenge_{milestone}"
\* is the key of the cache; f"challenge_{lessons_completed}_{timestamp}" is
\* the challenge_id given to a challenge that brings none; "other" is a
\* challenge_id the model chose.  The first begins with "session_", the
\* second with "challenge_".
ChallengeKey(session_id, milestone) ==
    [form |-> "session_challenge", session_id |-> session_id, milestone |-> milestone]

DefaultChallengeId(milestone) ==
    [form |-> "challenge_timestamp", session_id |-> 0, milestone |-> milestone]

OtherChallengeId == [form |-> "other", session_id |-> 0, milestone |-> 0]

Challenge(tag, challenge_id) == [tag |-> tag, challenge_id |-> challenge_id]

\* generate_coding_challenge: the model's challenge, with its own
\* challenge_id or the default one, or the fallback when the call or the
\* parsing raises.
ChallengeOutcomes(milestone) ==
    {Outcome(Challenge("fallback", DefaultChallengeId(milestone)), FALSE)}
        \cup (IF CanReply
              THEN {Outcome(Challenge("model", id), TRUE) :
                        id \in {DefaultChallengeId(milestone), OtherChallengeId}}
              ELSE {})

\* 400, its detail naming the number of completed lessons.
TooFewLessons(completed_count) == [status |-> 400, completed_lessons |-> completed_count]

ChallengeReply(challenge, is_cached) ==
    [status |-> 200, challenge |-> challenge, is_cached |-> is_cached]

CompletedCount == Len(sessions[current_session].completed_lessons)

CurrentChallengeKey ==
    ChallengeKey(sessions[current_session].session_id, Milestone(CompletedCount))

\* Faulty variant: challenges unlock at five completed lessons.
LockedBelowFive(completed_count) == completed_count < 5

\* `if completed_lessons < 4`
Locked(completed_count) == completed_count < 4

\* What the handler answers before any model call.
GenerateCodingChallengeResponse ==
    IF current_session = None THEN Error(404)
    ELSE IF Locked(CompletedCount) THEN TooFewLessons(CompletedCount)
    ELSE IF CurrentChallengeKey \in DOMAIN coding_quizzes
    THEN ChallengeReply(coding_quizzes[CurrentChallengeKey], TRUE)
    ELSE Awaits

GenerateCodingChallenge ==
    \E r \in {GenerateCodingChallengeResponse} :
    /\ CanStart
    /\ IF r = Awaits
       THEN /\ Suspend(Request("generate_coding_challenge", current_session,
                               Milestone(CompletedCount)))
            /\ UNCHANGED resp
       ELSE /\ resp' = Sent("generate_coding_challenge", r)
            /\ UNCHANGED pending
    /\ UNCHANGED <<current_session, sessions, quiz_cache, model_replies, served,
                   workload, coding_quizzes, extraction>>

\* session_id and challenge_milestone were computed before the await.
GenerateCodingChallengeFinish(req, o) ==
    /\ Resume(req)
    /\ Count(o)
    /\ coding_quizzes' =
          Put(coding_quizzes, ChallengeKey(sessions[req.sess].session_id, req.lesson), o.doc)
    /\ resp' = Sent("generate_coding_challenge", ChallengeReply(o.doc, FALSE))
    /\ sessions' = Collect(sessions, current_session, pending')
    /\ UNCHANGED <<current_session, quiz_cache, served, workload, extraction>>

----------------------------------------------------------------------------
(* POST /submit-code *)

ChallengeNotFound == [status |-> 404, detail |-> "Challenge not found"]

\* What the handler answers before any model call.
SubmitCodeResponse(challenge_id) ==
    IF current_session = None THEN Error(404)
    ELSE IF challenge_id \notin DOMAIN coding_quizzes THEN ChallengeNotFound
    ELSE Awaits

\* The challenge_id values clients send: those of the challenges in the
\* cache, the keys of the cache, and one that names nothing.
ChallengeIdInputs ==
    {coding_quizzes[k].challenge_id : k \in DOMAIN coding_quizzes}
        \cup DOMAIN coding_quizzes \cup {OtherChallengeId}

SubmitCode(challenge_id) ==
    \E r \in {SubmitCodeResponse(challenge_id)} :
    /\ CanStart
    /\ IF r = Awaits
       THEN /\ Suspend(Request("submit_code", current_session, 0))
            /\ UNCHANGED resp
       ELSE /\ resp' = Sent("submit_code", r)
            /\ UNCHANGED pending
    /\ UNCHANGED <<current_session, sessions, quiz_cache, model_replies, served,
                   workload, coding_quizzes, extraction>>

\* evaluate_code never raises; the evaluation is returned, not stored.
SubmitCodeFinish(req) ==
    /\ Resume(req)
    /\ resp' = Sent("submit_code", Success)
    /\ sessions' = Collect(sessions, current_session, pending')
    /\ UNCHANGED <<current_session, quiz_cache, model_replies, served, workload,
                   coding_quizzes, extraction>>

----------------------------------------------------------------------------
(* Specifications *)

Next ==
    \/ SelectLanguage
    \/ \E req \in PendingOf("select_language"), o \in CurriculumOutcomes :
           SelectLanguageFinish(req, o)
    \/ \E n \in CourseInputs : GetLesson(n)
    \/ \E req \in PendingOf("get_lesson") : GetLessonFinish(req)
    \/ \E n \in LessonInputs : GenerateQuiz(n)
    \/ \E req \in PendingOf("generate_quiz"), o \in QuizOutcomes :
           GenerateQuizFinish(req, o)
    \/ \E n \in CourseInputs, answers \in AnswerInputs : SubmitQuiz(n, answers)
    \/ \E req \in PendingOf("submit_quiz"), o \in QuizOutcomes, answers \in AnswerInputs :
           SubmitQuizFinish(req, o, answers)

\* also: further lesson numbers; questions: ask-tutor requests per session;
\* follow: the last lesson a learner who follows the course takes.
Workload(in_flight, nsessions, replies, lessons, answers, course) ==
    [in_flight |-> in_flight, sessions |-> nsessions, replies |-> replies,
     lessons |-> lessons, answers |-> answers, course |-> course,
     also |-> {}, questions |-> 0, follow |-> TotalLessons]

\* Requests of one session handled concurrently, as the event loop
\* interleaves them.
Init == InitWith(Workload(MaxInFlight, 1, MaxModelReplies, MaxLessonInput, MaxAnswers, FALSE))

Spec == Init /\ [][Next]_vars

\* A request is sent only after the previous one was answered; the learner
\* may select a language again; every request is about lesson 1.
InitSeq == InitWith(Workload(1, MaxSessions, MaxModelReplies, 1, MaxAnswers, FALSE))

SpecSeq == InitSeq /\ [][Next]_vars

\* One learner follows the course, lesson after lesson, one request at a
\* time, while the model is unreachable (every document is the fallback).
InitCourse == InitWith(Workload(1, 1, 0, MaxLessonInput, CourseAnswers, TRUE))

SpecCourse == InitCourse /\ [][Next]_vars

\* One learner, one request at a time, who also sends lesson number 0 and
\* the first number whose index lies before a 14-lesson list.
InitAnyLesson ==
    InitWith([Workload(1, 1, MaxModelReplies, 1, CourseAnswers, FALSE)
                  EXCEPT !.also = {0, 0 - FallbackLessons}])

SpecAnyLesson == InitAnyLesson /\ [][Next]_vars

\* The endpoints of a session: the lessons, the quizzes, the tutor, the status.
NextTutor ==
    \/ Next
    \/ AskTutor
    \/ \E req \in PendingOf("ask_tutor"), o \in TutorOutcomes : AskTutorFinish(req, o)
    \/ SessionStatus

\* Two selections of a language, with requests of the first session still
\* being handled when the second completes.
InitTutor ==
    InitWith([Workload(MaxInFlight, MaxSessions, MaxModelReplies, 1, CourseAnswers, FALSE)
                  EXCEPT !.questions = MaxQuestions])

SpecTutor == InitTutor /\ [][NextTutor]_vars

\* Every endpoint.
NextPlatform ==
    \/ NextTutor
    \/ GenerateCodingChallenge
    \/ \E req \in PendingOf("generate_coding_challenge") :
          \E o \in ChallengeOutcomes(req.lesson) : GenerateCodingChallengeFinish(req, o)
    \/ \E challenge_id \in ChallengeIdInputs : SubmitCode(challenge_id)
    \/ \E req \in PendingOf("submit_code") : SubmitCodeFinish(req)

\* One learner follows the course and uses every endpoint, one request at a
\* time.
InitPlatform ==
    InitWith([Workload(1, 1, MaxModelReplies, 1, CourseAnswers, TRUE)
                  EXCEPT !.questions = MaxQuestions])

SpecPlatform == InitPlatform /\ [][NextPlatform]_vars

\* The lessons, the quizzes and the challenges.
NextChallenges ==
    \/ Next
    \/ GenerateCodingChallenge
    \/ \E req \in PendingOf("generate_coding_challenge") :
          \E o \in ChallengeOutcomes(req.lesson) : GenerateCodingChallengeFinish(req, o)
    \/ \E challenge_id \in ChallengeIdInputs : SubmitCode(challenge_id)
    \/ \E req \in PendingOf("submit_code") : SubmitCodeFinish(req)

\* One learner follows the course, one request at a time, while the model is
\* unreachable, and then selects a language again.
InitReselect ==
    InitWith([Workload(1, MaxSessions, 0, 1, 1, TRUE) EXCEPT !.follow = MaxFollowed])

SpecReselect == InitReselect /\ [][NextChallenges]_vars

----------------------------------------------------------------------------
(* Properties of the progress state machine *)

\* A graded response of submit-quiz, by its verdict.
Verdict(r, passed) == r.status = 200 /\ r.passed = passed

\* The step sends a graded submit-quiz response with this verdict.  Every
\* such step leaves the response in resp, so the steps that do not are
\* set aside before the requests are enumerated.
Answers(passed) == resp'.op = "submit_quiz" /\ Verdict(resp'.reply, passed)

\* The submit-quiz steps with a verdict, by the path that sends the response:
\* from the cached quiz at once, or after the model was awaited.
GradedNow(n, answers, passed) ==
    /\ resp'.reply = SubmitQuizResponse(n, answers)
    /\ Verdict(resp'.reply, passed)
    /\ SubmitQuiz(n, answers)

GradedLate(req, o, answers, passed) ==
    /\ resp'.reply = Grade(o.doc, answers)
    /\ Verdict(resp'.reply, passed)
    /\ SubmitQuizFinish(req, o, answers)

PassesNow(n, answers) == GradedNow(n, answers, TRUE)
PassesLate(req, o, answers) == GradedLate(req, o, answers, TRUE)
FailsNow(n, answers) == GradedNow(n, answers, FALSE)
FailsLate(req, o, answers) == GradedLate(req, o, answers, FALSE)

\* The step leaves every session object but i as it was.
OthersKept(i) ==
    \A j \in DOMAIN sessions \ {i} : sessions'[j] \in {sessions[j], Freed}

\* The step leaves every session object as it was.
ProgressKept ==
    \A j \in DOMAIN sessions : sessions'[j] \in {sessions[j], Freed}

Completed(i) == Range(sessions[i].completed_lessons)

\* C1: within one session current_lesson never decreases from one state to
\* the next, whatever is submitted, and it is never greater than 14.
C1_CurrentLessonMonotoneCapped ==
    [][ /\ \A i \in DOMAIN sessions' : sessions'[i].current_lesson <= 14
        /\ \A i \in DOMAIN sessions :
              sessions'[i] # Freed =>
                  sessions'[i].current_lesson >= sessions[i].current_lesson ]_vars

\* A passing submission for lesson 14 was graded while the session was at
\* lesson 14.
C1_Witness ==
    /\ resp.op = "submit_quiz"
    /\ resp.reply.passed
    /\ \E i \in DOMAIN sessions :
          sessions[i].current_lesson = 14 /\ 14 \in Completed(i)

\* What a passing submission for `lesson` does to session object i.
PassEffect(i, lesson) ==
    sessions'[i] # Freed =>
        /\ lesson \in Range(sessions'[i].completed_lessons)
        /\ sessions'[i].completed_lessons =
              IF lesson \in Completed(i)
              THEN sessions[i].completed_lessons
              ELSE Append(sessions[i].completed_lessons, lesson)
        /\ sessions'[i].current_lesson =
              IF lesson = sessions[i].current_lesson /\ sessions[i].current_lesson < 14
              THEN sessions[i].current_lesson + 1
              ELSE sessions[i].current_lesson
        /\ OthersKept(i)

\* C2: a passing submit-quiz for lesson L adds L to completed_lessons if it is
\* absent, increases current_lesson by exactly 1 when L is the current lesson
\* and current_lesson < 14, and leaves current_lesson unchanged otherwise.
C2_PassingSubmission ==
    [][ Answers(TRUE) =>
        /\ \A n \in CourseInputs, answers \in AnswerInputs :
              PassesNow(n, answers) => PassEffect(current_session, n)
        /\ \A req \in PendingOf("submit_quiz"), o \in QuizOutcomes,
              answers \in AnswerInputs :
              PassesLate(req, o, answers) => PassEffect(req.sess, req.lesson) ]_vars

\* Lesson 2 was passed while lesson 1 was current, the lessons up to 13 were
\* passed as the current lesson, and lesson 14 was passed at the cap.
C2_Witness ==
    \E i \in DOMAIN sessions :
        /\ sessions[i].current_lesson = 14
        /\ 14 \in Completed(i)
        /\ sessions[i].completed_lessons[1] = 2

\* C3, as claimed: a passing submit-quiz for a lesson that is already in
\* completed_lessons leaves current_lesson unchanged.
C3_RepassKeepsCurrentLesson ==
    [][ Answers(TRUE) =>
        /\ \A n \in CourseInputs, answers \in AnswerInputs :
              (PassesNow(n, answers) /\ n \in Completed(current_session)) =>
                  sessions'[current_session].current_lesson =
                      sessions[current_session].current_lesson
        /\ \A req \in PendingOf("submit_quiz"), o \in QuizOutcomes,
              answers \in AnswerInputs :
              (PassesLate(req, o, answers) /\ req.lesson \in Completed(req.sess)
                 /\ sessions'[req.sess] # Freed) =>
                  sessions'[req.sess].current_lesson =
                      sessions[req.sess].current_lesson ]_vars

\* C4: completed_lessons never holds a lesson number twice, also when the
\* handlers of passing submissions for one lesson overlap.
C4_NoDuplicateCompleted ==
    \A i \in DOMAIN sessions :
        Cardinality(Completed(i)) = Len(sessions[i].completed_lessons)

\* A submission for a lesson was graded as passed while the handler of another
\* submission for the same lesson of the same session waits for the model.
C4_Witness ==
    /\ resp.op = "submit_quiz"
    /\ resp.reply.passed
    /\ \E req \in PendingOf("submit_quiz") : req.lesson \in Completed(req.sess)

\* C5: a submit-quiz answered with passed = false leaves completed_lessons
\* and current_lesson of every session as they were.
C5_FailedSubmissionKeepsProgress ==
    [][ Answers(FALSE) =>
        /\ \A n \in CourseInputs, answers \in AnswerInputs :
              FailsNow(n, answers) => ProgressKept
        /\ \A req \in PendingOf("submit_quiz"), o \in QuizOutcomes,
              answers \in AnswerInputs :
              FailsLate(req, o, answers) => ProgressKept ]_vars

\* A failed retry: the session is at lesson 3 having completed lessons 1 and
\* 2, no quiz of lesson 3 was ever graded, and the last response is a failed
\* submission.
C5_Witness ==
    /\ resp.op = "submit_quiz"
    /\ resp.reply.status = 200
    /\ ~resp.reply.passed
    /\ current_session # None
    /\ sessions[current_session].current_lesson = 3
    /\ Completed(current_session) = {1, 2}
    /\ ~Cached(CurrentKey(3))

----------------------------------------------------------------------------
(* Properties of the quiz cache and of grading *)

\* The quiz last returned by generate-quiz for lesson n of the active session.
Shown(n) == served[CurrentKey(n)]

WasShown(n) == current_session # None /\ CurrentKey(n) \in DOMAIN served

\* C6: within one session, once generate-quiz for lesson n has returned a
\* question set, every later sequential generate-quiz for n answers at once
\* (no model call) with that same set and cached = true.
C6_QuizStability ==
    \A n \in LessonInputs :
        WasShown(n) => GenerateQuizResponse(n) = QuizReply(Shown(n), TRUE)

\* A five-question quiz came from the model and was then served from cache.
C6_Witness ==
    /\ resp.op = "generate_quiz"
    /\ resp.reply.status = 200
    /\ resp.reply.cached
    /\ resp.reply.questions.tag = "five"
    /\ WasShown(1)

\* C7: submit-quiz for lesson n grades against exactly the set generate-quiz
\* returned before; a set generated during grading is stored, and a stored
\* set is never replaced and is what every later generate-quiz returns.
C7_GradesAgainstShownQuiz ==
    /\ [](\A n \in LessonInputs :
            /\ WasShown(n) =>
                  \A answers \in AnswerInputs :
                      SubmitQuizResponse(n, answers) = Grade(Shown(n), answers)
            /\ (QuizCheck(n) = 200 /\ Cached(CurrentKey(n))) =>
                  GenerateQuizResponse(n) = QuizReply(quiz_cache[CurrentKey(n)], TRUE))
    /\ [][ /\ \A key \in DOMAIN quiz_cache :
                 key \in DOMAIN quiz_cache' /\ quiz_cache'[key] = quiz_cache[key]
           /\ \A req \in PendingOf("submit_quiz"), o \in QuizOutcomes,
                 answers \in AnswerInputs :
                 SubmitQuizFinish(req, o, answers) =>
                     /\ quiz_cache'[RequestKey(req)] = o.doc
                     /\ resp'.reply = Grade(o.doc, answers) ]_vars

\* The five-question quiz generate-quiz returned was graded by submit-quiz.
C7_Witness ==
    /\ resp.op = "submit_quiz"
    /\ resp.reply.status = 200
    /\ WasShown(1)
    /\ Shown(1).tag = "five"
    /\ resp.reply.questions = Shown(1)

\* The quizzes a submission may be graded against.
Quizzes == QuizPool \cup {FallbackQuiz}

\* The answers that match, counted position by position.
Matches(quiz, answers) ==
    Cardinality({i \in 1..Len(answers) : i <= Len(quiz.correct) /\ answers[i] = quiz.correct[i]})

\* passed = (score >= 70) with score = correct / total * 100, and 4 of 5 is
\* the least that passes the standard quiz.
PassRule(r) ==
    r.status = 200 =>
        /\ r.passed <=> (r.correct_answers * 100 >= 70 * r.total_questions)
        /\ r.total_questions = 5 => (r.passed <=> r.correct_answers \in {4, 5})

\* C8: submit-quiz reports passed = true exactly when correct / total * 100
\* is at least 70; of a 5-question quiz, 4 or 5 correct answers pass and 3 or
\* fewer fail.
C8_PassingGrade ==
    \A answers \in AnswerInputs :
        /\ \A n \in LessonInputs :
              /\ PassRule(SubmitQuizResponse(n, answers))
              /\ SubmitQuizResponse(n, answers).status = 200 =>
                    SubmitQuizResponse(n, answers).correct_answers =
                        Matches(quiz_cache[CurrentKey(n)], answers)
        /\ \A quiz \in Quizzes :
              /\ PassRule(Grade(quiz, answers))
              /\ Grade(quiz, answers).status = 200 =>
                    Grade(quiz, answers).correct_answers = Matches(quiz, answers)

\* A submission with 4 of 5 answers correct was graded as passed.
C8_Witness ==
    /\ resp.op = "submit_quiz"
    /\ resp.reply.status = 200
    /\ resp.reply.total_questions = 5
    /\ resp.reply.correct_answers = 4
    /\ resp.reply.passed

\* C9, as claimed: a submission with fewer answers than questions has the
\* number of answers as its total, so it passes when all of them are correct.
C9_TotalIsAnswerCount ==
    \A n \in LessonInputs, answers \in AnswerInputs :
        (/\ SubmitQuizResponse(n, answers).status = 200
         /\ Len(answers) < Len(quiz_cache[CurrentKey(n)].correct)) =>
            /\ SubmitQuizResponse(n, answers).total_questions = Len(answers)
            /\ SubmitQuizResponse(n, answers).correct_answers = Len(answers) =>
                  SubmitQuizResponse(n, answers).passed

\* What truncated grading answers for a quiz and an answer list.
Truncated(r, quiz, answers) ==
    r.status = 200 =>
        /\ r.answered = Min(Len(answers), Len(quiz.correct))
        /\ r.correct_answers = Matches(quiz, answers)
        /\ r.total_questions = Len(quiz.correct)
        /\ r.passed <=> (Matches(quiz, answers) * 100 >= 70 * Len(quiz.correct))
        /\ Len(answers) > Len(quiz.correct) =>
              r = Grade(quiz, SubSeq(answers, 1, Len(quiz.correct)))

\* C9, amended: only the first min(len(answers), len(questions)) positions
\* are compared and answers beyond the question count are ignored, but the
\* score's total is the number of questions, so a short submission passes
\* only if its correct answers are at least 70% of all the questions.
C9_TruncatedComparison ==
    \A answers \in AnswerInputs :
        /\ \A n \in LessonInputs :
              (QuizCheck(n) = 200 /\ Cached(CurrentKey(n))) =>
                  Truncated(SubmitQuizResponse(n, answers),
                            quiz_cache[CurrentKey(n)], answers)
        /\ \A quiz \in Quizzes : Truncated(Grade(quiz, answers), quiz, answers)

\* Three answers, all correct, to a five-question quiz: graded 3 of 5, failed.
C9_Witness ==
    /\ resp.op = "submit_quiz"
    /\ resp.reply.status = 200
    /\ resp.reply.answered = 3
    /\ resp.reply.correct_answers = 3
    /\ resp.reply.total_questions = 5
    /\ ~resp.reply.passed

\* C10: with an active session, GET /lesson/n for n > current_lesson is
\* answered 403, also when n is beyond the curriculum, without a model call
\* and without a change to the session or the caches.
C10_LockedLesson ==
    [][ \A n \in 1..(TotalLessons + 2) :
          (current_session # None /\ n > sessions[current_session].current_lesson) =>
              /\ GetLessonResponse(n) = Error(403)
              /\ GetLesson(n) =>
                    /\ resp' = Sent("get_lesson", Error(403))
                    /\ UNCHANGED <<current_session, sessions, quiz_cache, coding_quizzes, served,
                                   pending, model_replies>> ]_vars

\* Lesson 15 of a 14-lesson curriculum was asked for by a learner at lesson 2
\* or later who has a cached quiz.
C10_Witness ==
    /\ resp = Sent("get_lesson", Error(403))
    /\ current_session # None
    /\ sessions[current_session].current_lesson >= 2
    /\ sessions[current_session].curriculum.n < FallbackLessons + 1
    /\ DOMAIN quiz_cache # {}

----------------------------------------------------------------------------
(* clean_json_response *)

\* A text is a sequence of characters.  The three backquotes of a fence and
\* the word json are one element each: the 7 characters removed from the
\* start are the two elements Fence, Json, the 3 characters are Fence.
LBrace == "{"
RBrace == "}"
Quote == "\""
Colon == ":"
One == "1"
Space == " "
Letter == "x"
Fence == "fence"
Json == "json"

StartsWith(s, prefix) ==
    Len(prefix) <= Len(s) /\ SubSeq(s, 1, Len(prefix)) = prefix

EndsWith(s, suffix) ==
    Len(suffix) <= Len(s) /\ SubSeq(s, Len(s) - Len(suffix) + 1, Len(s)) = suffix

\* s[n:]
From(s, n) == SubSeq(s, n + 1, Len(s))

RECURSIVE LStrip(_)
LStrip(s) == IF s # << >> /\ Head(s) = Space THEN LStrip(Tail(s)) ELSE s

RECURSIVE RStrip(_)
RStrip(s) ==
    IF s # << >> /\ s[Len(s)] = Space THEN RStrip(SubSeq(s, 1, Len(s) - 1)) ELSE s

\* str.strip()
Strip(s) == RStrip(LStrip(s))

\* json.loads on these characters: whitespace, then one value (an object of
\* at most one member, a string or a number), then whitespace to the end.
\* The operators answer the position after what they read, 0 for an error.
RECURSIVE SkipSpace(_, _)
SkipSpace(s, i) == IF i <= Len(s) /\ s[i] = Space THEN SkipSpace(s, i + 1) ELSE i

\* From inside a string to the position after its closing quote.
RECURSIVE StringEnd(_, _)
StringEnd(s, i) ==
    IF i > Len(s) THEN 0
    ELSE IF s[i] = Quote THEN i + 1
    ELSE StringEnd(s, i + 1)

RECURSIVE NumberEnd(_, _)
NumberEnd(s, i) == IF i <= Len(s) /\ s[i] = One THEN NumberEnd(s, i + 1) ELSE i

RECURSIVE ValueEnd(_, _)
RECURSIVE ObjectEnd(_, _)

\* From after the opening brace to the position after the closing one.
ObjectEnd(s, i) ==
    LET key == SkipSpace(s, i)
        key_end == StringEnd(s, key + 1)
        colon == SkipSpace(s, key_end)
        value_end == ValueEnd(s, SkipSpace(s, colon + 1))
        close == SkipSpace(s, value_end)
    IN  IF key > Len(s) THEN 0
        ELSE IF s[key] = RBrace THEN key + 1
        ELSE IF s[key] # Quote THEN 0
        ELSE IF key_end = 0 THEN 0
        ELSE IF colon > Len(s) \/ s[colon] # Colon THEN 0
        ELSE IF value_end = 0 THEN 0
        ELSE IF close <= Len(s) /\ s[close] = RBrace THEN close + 1
        ELSE 0

ValueEnd(s, i) ==
    IF i > Len(s) THEN 0
    ELSE IF s[i] = Quote THEN StringEnd(s, i + 1)
    ELSE IF s[i] = One THEN NumberEnd(s, i + 1)
    ELSE IF s[i] = LBrace THEN ObjectEnd(s, i + 1)
    ELSE 0

\* json.loads(s) does not raise.
Loads(s) ==
    LET value_end == ValueEnd(s, SkipSpace(s, 1))
    IN  value_end # 0 /\ SkipSpace(s, value_end) = Len(s) + 1

\* The markdown markers are removed and the text is stripped.
Cleaned(response_text) ==
    LET stripped == Strip(response_text)
        no_json == IF StartsWith(stripped, <<Fence, Json>>) THEN From(stripped, 2)
                   ELSE stripped
        no_open == IF StartsWith(no_json, <<Fence>>) THEN From(no_json, 1) ELSE no_json
        no_close == IF EndsWith(no_open, <<Fence>>)
                    THEN SubSeq(no_open, 1, Len(no_open) - 1)
                    ELSE no_open
    IN  Strip(no_close)

\* The loop over the characters: start_idx and end_idx, 0 standing for the
\* -1 of the code (positions count from 1, end_idx is the closing brace).
RECURSIVE Braces(_, _, _, _)
Braces(cleaned, i, brace_count, start_idx) ==
    IF i > Len(cleaned) THEN [start_idx |-> start_idx, end_idx |-> 0]
    ELSE IF cleaned[i] = LBrace
    THEN Braces(cleaned, i + 1, brace_count + 1, IF start_idx = 0 THEN i ELSE start_idx)
    ELSE IF cleaned[i] = RBrace
    THEN IF brace_count - 1 = 0 /\ start_idx # 0
         THEN [start_idx |-> start_idx, end_idx |-> i]
         ELSE Braces(cleaned, i + 1, brace_count - 1, start_idx)
    ELSE Braces(cleaned, i + 1, brace_count, start_idx)

Raised(response_text) ==
    [text |-> response_text, done |-> TRUE, raised |-> TRUE, returned |-> << >>]

Returned(response_text, json_str) ==
    [text |-> response_text, done |-> TRUE, raised |-> FALSE, returned |-> json_str]

\* Faulty variant: the text is returned without being parsed.
Untested(response_text, json_str) == Returned(response_text, json_str)

\* `json.loads(json_str); return json_str`, ValueError when it raises.
Tested(response_text, json_str) ==
    IF Loads(json_str) THEN Returned(response_text, json_str) ELSE Raised(response_text)

clean_json_response(response_text) ==
    LET cleaned == Cleaned(response_text)
        found == Braces(cleaned, 1, 0, 0)
    IN  IF found.start_idx # 0 /\ found.end_idx # 0
        THEN Tested(response_text, SubSeq(cleaned, found.start_idx, found.end_idx))
        ELSE Tested(response_text, cleaned)

\* The texts the model answers with.  Every text of up to MaxText of the
\* characters of JSON; objects, some with braces inside their strings and
\* some nested, alone or inside a fence and followed by prose; and the same
\* cut short.
RECURSIVE TextsUpTo(_, _)
TextsUpTo(chars, longest) ==
    IF longest = 0 THEN {<< >>}
    ELSE LET shorter == TextsUpTo(chars, longest - 1)
         IN  shorter \cup {Append(t, c) : t \in shorter, c \in chars}

Strings ==
    {<<Quote>> \o inside \o <<Quote>> :
        inside \in {<< >>, <<Letter>>, <<LBrace>>, <<RBrace>>, <<LBrace, RBrace>>,
                    <<RBrace, LBrace>>}}

Member(value) == <<LBrace, Quote, Letter, Quote, Colon, Space>> \o value \o <<RBrace>>

FlatObjects == {<<LBrace, RBrace>>} \cup {Member(value) : value \in Strings \cup {<<One>>}}

Objects == FlatObjects \cup {Member(object) : object \in FlatObjects}

Openings == {<< >>, <<Fence, Json, Space>>, <<Fence, Space>>}

Closings == {<< >>, <<Space, Fence>>}

Prose == {<< >>, <<Space, Letter>>, <<Letter, RBrace>>, <<Letter, LBrace>>}

\* A fence or none, an object, the end of the fence or none, prose or none.
Embedded(opening, object, closing, prose) == opening \o object \o closing \o prose

EmbeddedTexts ==
    {Embedded(opening, object, closing, prose) :
        opening \in Openings, object \in Objects, closing \in Closings, prose \in Prose}

\* An object that stops before its end, in a fence or not.
TruncatedTexts ==
    UNION {{opening \o SubSeq(object, 1, n) :
                opening \in Openings, n \in 1..(Len(object) - 1)} : object \in Objects}

ResponseTexts ==
    TextsUpTo({LBrace, RBrace, Quote, Colon, One}, MaxText)
        \cup EmbeddedTexts \cup TruncatedTexts

InitExtract ==
    /\ InitStorage(Workload(1, 1, 0, 1, 1, FALSE))
    /\ \E response_text \in ResponseTexts :
          extraction = [NotExtracted EXCEPT !.text = response_text]

Extract ==
    /\ ~extraction.done
    /\ extraction' = clean_json_response(extraction.text)
    /\ UNCHANGED <<current_session, sessions, quiz_cache, pending, model_replies,
                   served, resp, workload, coding_quizzes>>

SpecExtract == InitExtract /\ [][Extract]_vars

----------------------------------------------------------------------------
(* Properties of the endpoints' error handling *)

\* C11, as claimed: with an active session, GET /lesson/n goes on to return
\* the lesson content for every integer n <= current_lesson.
C11_UnlockedLessonSucceeds ==
    \A n \in (0 - FallbackLessons)..TotalLessons :
        (current_session # None /\ n <= sessions[current_session].current_lesson) =>
            GetLessonResponse(n) = Awaits

\* No select-language has been answered 200 so far: every session object
\* ever stored is one whose selection was answered 500.
NoSelectionSucceeded ==
    \A i \in DOMAIN sessions : SelectLanguageResponse(sessions[i].curriculum).status # 200

\* C12, as claimed: before the first successful select-language every
\* endpoint that needs a session answers 404 at once (so without a model
\* call or a change of state), and session-status reports no active session.
C12_NoSessionBeforeSelection ==
    NoSelectionSucceeded =>
        /\ \A n \in CourseInputs :
              /\ GetLessonResponse(n) = Error(404)
              /\ GenerateQuizResponse(n) = Error(404)
              /\ \A answers \in AnswerInputs : SubmitQuizResponse(n, answers) = Error(404)
        /\ AskTutorResponse = Error(404)
        /\ GenerateCodingChallengeResponse = Error(404)
        /\ \A challenge_id \in ChallengeIdInputs : SubmitCodeResponse(challenge_id) = Error(404)
        /\ ~SessionStatusResponse.has_active_session

\* The session ids in use: of the session objects and of the cache keys.
SessionIds ==
    {sessions[i].session_id : i \in DOMAIN sessions}
        \cup {key[1] : key \in DOMAIN quiz_cache}

\* C13: when a select-language completes, the active session is a new
\* object with a session_id not used before, current_lesson = 1, and empty
\* completed_lessons and chat_history, whatever the replaced session held
\* and whether the curriculum is the model's or the fallback.
C13_SelectionReplacesSession ==
    [][ resp'.op = "select_language" =>
        \A req \in PendingOf("select_language"), o \in CurriculumOutcomes :
            SelectLanguageFinish(req, o) =>
                /\ current_session' \notin {None, current_session}
                /\ sessions'[current_session'].session_id \notin SessionIds
                /\ sessions'[current_session'].curriculum = o.doc
                /\ sessions'[current_session'].current_lesson = 1
                /\ sessions'[current_session'].completed_lessons = << >>
                /\ sessions'[current_session'].chat_history = << >> ]_vars

\* The second selection has completed while a handler still holds the first
\* session, which has a completed lesson and a chat entry.
C13_Witness ==
    /\ resp.op = "select_language"
    /\ current_session = 2
    /\ sessions[2].completed_lessons = << >>
    /\ sessions[2].chat_history = << >>
    /\ sessions[1].completed_lessons # << >>
    /\ sessions[1].chat_history # << >>

----------------------------------------------------------------------------
(* Properties of the coding challenges *)

ChallengeSent == resp'.op = "generate_coding_challenge"

\* C14: with an active session and fewer than 4 completed lessons,
\* generate-coding-challenge answers 400 naming the completed count, calls
\* no model and adds nothing to the challenge cache; with 4 or more
\* completed lessons it is never answered 400.
C14_ChallengeUnlock ==
    /\ [](current_session # None =>
            IF CompletedCount < 4
            THEN GenerateCodingChallengeResponse = TooFewLessons(CompletedCount)
            ELSE GenerateCodingChallengeResponse.status # 400)
    /\ [][ ChallengeSent =>
           /\ (GenerateCodingChallenge /\ current_session # None /\ CompletedCount < 4) =>
                 /\ resp'.reply = TooFewLessons(CompletedCount)
                 /\ UNCHANGED <<coding_quizzes, pending, model_replies, sessions>>
           /\ \A req \in PendingOf("generate_coding_challenge") :
                 \A o \in ChallengeOutcomes(req.lesson) :
                     GenerateCodingChallengeFinish(req, o) => resp'.reply.status = 200 ]_vars

\* A learner with 3 completed lessons asked for a challenge and was refused.
C14_Witness ==
    /\ resp = Sent("generate_coding_challenge", TooFewLessons(3))
    /\ current_session # None
    /\ CompletedCount = 3
    /\ DOMAIN coding_quizzes = {}

\* The multiple of 4 whose bucket of four counts holds completed_count.
Bucket(completed_count) ==
    CHOOSE m \in {0, 4, 8, 12} : m <= completed_count /\ completed_count < m + 4

BucketKey == ChallengeKey(sessions[current_session].session_id, Bucket(CompletedCount))

\* A step in which generate-coding-challenge answers.
ChallengeAnswered ==
    /\ ChallengeSent
    /\ \/ GenerateCodingChallenge /\ UNCHANGED pending
       \/ \E req \in PendingOf("generate_coding_challenge") :
              \E o \in ChallengeOutcomes(req.lesson) : GenerateCodingChallengeFinish(req, o)

\* C15: within one session and with requests made one after another, the
\* challenge of a bucket of four completed counts (4..7, 8..11, ...) is
\* generated once, by the first request made in the bucket, which answers
\* is_cached false and stores it; every later request in the bucket answers
\* the stored challenge with is_cached true; a stored challenge never changes.
C15_MilestoneCache ==
    /\ [](current_session # None /\ CompletedCount >= 4 =>
            /\ CurrentChallengeKey = BucketKey
            /\ IF BucketKey \in DOMAIN coding_quizzes
               THEN GenerateCodingChallengeResponse =
                        ChallengeReply(coding_quizzes[BucketKey], TRUE)
               ELSE GenerateCodingChallengeResponse = Awaits)
    /\ [][ /\ \A k \in DOMAIN coding_quizzes :
                 k \in DOMAIN coding_quizzes' /\ coding_quizzes'[k] = coding_quizzes[k]
           /\ (ChallengeAnswered /\ resp'.reply.status = 200) =>
                 IF resp'.reply.is_cached
                 THEN /\ BucketKey \in DOMAIN coding_quizzes
                      /\ resp'.reply.challenge = coding_quizzes[BucketKey]
                      /\ UNCHANGED <<coding_quizzes, model_replies>>
                 ELSE /\ BucketKey \notin DOMAIN coding_quizzes
                      /\ coding_quizzes' =
                            Put(coding_quizzes, BucketKey, resp'.reply.challenge) ]_vars

\* At 8 completed lessons, with the challenge of milestone 4 in the cache, a
\* new challenge was generated for milestone 8.
C15_Witness ==
    /\ current_session # None
    /\ CompletedCount = 8
    /\ resp.op = "generate_coding_challenge"
    /\ resp.reply.status = 200
    /\ ~resp.reply.is_cached
    /\ DOMAIN coding_quizzes =
          {ChallengeKey(sessions[current_session].session_id, m) : m \in {4, 8}}
    /\ coding_quizzes[BucketKey] = resp.reply.challenge

\* At 7 completed lessons the challenge generated earlier was answered again.
C15_CachedWitness ==
    /\ current_session # None
    /\ CompletedCount = 7
    /\ resp.op = "generate_coding_challenge"
    /\ resp.reply.status = 200
    /\ resp.reply.is_cached

\* C16: every challenge that generate-coding-challenge returned to the
\* active session is found by submit-code under its challenge_id: the
\* submission is never answered 404 'Challenge not found'.
C16_ReturnedChallengeFound ==
    current_session # None =>
        \A k \in DOMAIN coding_quizzes :
            k.session_id = sessions[current_session].session_id =>
                SubmitCodeResponse(coding_quizzes[k].challenge_id) # ChallengeNotFound

----------------------------------------------------------------------------
(* Properties of the content generator *)

\* C17: whatever the model does on a call, no request is answered 500:
\* responses are successes or the session-state errors 400, 403 and 404.
C17_NoGenerationFailureSurfaces ==
    resp.reply.status \in {0, 200, 400, 403, 404}

\* C18: the curriculum of the active session is a list of exactly 14
\* lessons, whether the model or the fallback produced it.
C18_FourteenLessons ==
    current_session # None =>
        /\ sessions[current_session].curriculum.has_lessons
        /\ sessions[current_session].curriculum.is_list
        /\ sessions[current_session].curriculum.n = TotalLessons

----------------------------------------------------------------------------
(* Properties of clean_json_response *)

\* C19: for a text made of an optional fence, a valid JSON object (nested or
\* with braces inside its strings) and optional trailing prose, the function
\* returns exactly the text of the object.
C19_ExtractsEmbeddedObject ==
    extraction.done =>
        \A opening \in Openings, object \in Objects, closing \in Closings, prose \in Prose :
            extraction.text = Embedded(opening, object, closing, prose) =>
                ~extraction.raised /\ extraction.returned = object

\* No opening brace of the text is followed by a closing brace.
NoBalancedPair(text) ==
    ~ \E i, j \in 1..Len(text) : i < j /\ text[i] = LBrace /\ text[j] = RBrace

RaisesOrReturnsJSON ==
    /\ extraction.raised => extraction.returned = << >>
    /\ ~extraction.raised => Loads(extraction.returned)

\* C20, as claimed: the function raises or returns valid JSON, and it raises
\* for every text without a balanced brace pair and for every truncated
\* object.
C20_RaisesWithoutBraces ==
    extraction.done =>
        /\ RaisesOrReturnsJSON
        /\ (NoBalancedPair(extraction.text) \/ extraction.text \in TruncatedTexts) =>
              extraction.raised

\* C20, amended: the function raises or returns valid JSON; it raises for
\* every truncated object; for a text without a balanced brace pair it
\* returns the whole cleaned text when that text is valid JSON (a string or
\* a number) and raises otherwise.
C20_RaisesOrReturnsValidJSON ==
    extraction.done =>
        /\ RaisesOrReturnsJSON
        /\ extraction.text \in TruncatedTexts => extraction.raised
        /\ NoBalancedPair(extraction.text) =>
              IF Loads(Cleaned(extraction.text))
              THEN ~extraction.raised /\ extraction.returned = Cleaned(extraction.text)
              ELSE extraction.raised

\* The JSON string "{" has no balanced brace pair and was returned whole.
C20_Witness ==
    /\ extraction.done
    /\ extraction.text = <<Quote, LBrace, Quote>>
    /\ NoBalancedPair(extraction.text)
    /\ ~extraction.raised
    /\ extraction.returned = extraction.text

\* A fenced object cut before its closing brace made the function raise.
C20_TruncatedWitness ==
    /\ extraction.done
    /\ extraction.text = <<Fence, Json, Space, LBrace, Quote, Letter, Quote, Colon, Space, One>>
    /\ extraction.raised

----------------------------------------------------------------------------
(* Properties of interleaved handlers *)

\* C21: with handlers interleaved at their model calls, a quiz cache entry
\* is written at most once: a question set that is stored, or that
\* generate-quiz returned, is never replaced by a different one.
C21_CacheWrittenOnce ==
    [][ /\ \A key \in DOMAIN quiz_cache : quiz_cache'[key] = quiz_cache[key]
        /\ \A key \in DOMAIN served :
              key \in DOMAIN quiz_cache' => quiz_cache'[key] = served[key] ]_vars

\* The challenges cached under the id of a session that was replaced.
OldChallengeKeys ==
    {k \in DOMAIN coding_quizzes : k.session_id # sessions[current_session].session_id}

\* C22: what was cached under the id of a replaced session is unreachable:
\* generate-coding-challenge answers no challenge stored under an old id,
\* and submit-code, whatever challenge_id the client sends, evaluates
\* against none.
C22_OldCachesUnreachable ==
    current_session # None =>
        /\ GenerateCodingChallengeResponse.status = 200 =>
              CurrentChallengeKey \notin OldChallengeKeys
        /\ \A challenge_id \in ChallengeIdInputs :
              SubmitCodeResponse(challenge_id) = Awaits =>
                  challenge_id \notin OldChallengeKeys

----------------------------------------------------------------------------
(* Properties of the chat history *)

\* The session objects still referred to after the step.
Live == {i \in DOMAIN sessions : sessions'[i] # Freed}

\* C23: the chat history of a session is append-only.  An ask-tutor that
\* completes appends exactly one entry, the model's answer or the apology,
\* and changes no other field of the session, no other session and no
\* cache; no other step changes a chat history.
C23_ChatHistoryAppendOnly ==
    [][ /\ \A req \in PendingOf("ask_tutor"), o \in TutorOutcomes :
              AskTutorFinish(req, o) =>
                  /\ \A i \in Live :
                        sessions'[i] =
                            IF i = req.sess
                            THEN [sessions[i] EXCEPT !.chat_history = Append(@, o.doc)]
                            ELSE sessions[i]
                  /\ UNCHANGED <<current_session, quiz_cache, coding_quizzes>>
        /\ (~ \E req \in PendingOf("ask_tutor"), o \in TutorOutcomes :
                AskTutorFinish(req, o)) =>
              \A i \in Live : sessions'[i].chat_history = sessions[i].chat_history ]_vars

\* The apology was appended after the model's answer, in the active session.
C23_Witness ==
    /\ current_session # None
    /\ resp.op = "ask_tutor"
    /\ resp.reply.status = 200
    /\ sessions[current_session].chat_history = <<"answer", "apology">>

----------------------------------------------------------------------------
(* Properties of the progress under interleaving *)

\* The step answers a submit-quiz for this lesson of session object i.
SubmissionAnswered(i, lesson_number) ==
    \/ /\ current_session = i
       /\ \E answers \in AnswerInputs : SubmitQuiz(lesson_number, answers)
    \/ \E req \in PendingOf("submit_quiz") :
          /\ req.sess = i
          /\ req.lesson = lesson_number
          /\ \E o \in QuizOutcomes, answers \in AnswerInputs :
                SubmitQuizFinish(req, o, answers)

\* C24: with handlers interleaved, current_lesson changes only by one, and
\* only in the step that answers a passing submit-quiz for the lesson that
\* is current at that step; as current_lesson never comes back to that
\* lesson, overlapping submissions for one lesson advance it once in all.
C24_OneAdvancePerLesson ==
    [][ \A i \in Live :
          sessions'[i].current_lesson # sessions[i].current_lesson =>
              /\ sessions'[i].current_lesson = sessions[i].current_lesson + 1
              /\ Answers(TRUE)
              /\ SubmissionAnswered(i, sessions[i].current_lesson) ]_vars

\* Of two overlapping submissions for lesson 1, the first passed and moved
\* the session to lesson 2 while the second still awaits the model.
C24_Witness ==
    /\ current_session # None
    /\ resp.op = "submit_quiz"
    /\ Verdict(resp.reply, TRUE)
    /\ sessions[current_session].current_lesson = 2
    /\ sessions[current_session].completed_lessons = <<1>>
    /\ Request("submit_quiz", current_session, 1) \in PendingOf("submit_quiz")

\* C25: in every session, every lesson before current_lesson is a member of
\* completed_lessons.
C25_UnlockedByPassing ==
    \A i \in DOMAIN sessions :
        \A k \in 1..(sessions[i].current_lesson - 1) :
            k \in Range(sessions[i].completed_lessons)

\* The learner reached the last lesson, the 13 before it completed.
C25_Witness ==
    /\ current_session # None
    /\ sessions[current_session].current_lesson = TotalLessons
    /\ Len(sessions[current_session].completed_lessons) = TotalLessons - 1
    /\ resp.op = "submit_quiz"
    /\ Verdict(resp.reply, TRUE)

\* C26: in every session, every member of completed_lessons is a lesson
\* number from 1 to current_lesson, so that completed_lessons never counts
\* more lessons than are unlocked.
C26_CompletedWereUnlocked ==
    \A i \in DOMAIN sessions :
        /\ \A k \in Range(sessions[i].completed_lessons) :
              1 <= k /\ k <= sessions[i].current_lesson
        /\ Len(sessions[i].completed_lessons) <= sessions[i].current_lesson

\* The step resumes this suspended submit-quiz or ask-tutor handler.
Resumed(req) ==
    IF req.op = "submit_quiz"
    THEN \E o \in QuizOutcomes, answers \in AnswerInputs : SubmitQuizFinish(req, o, answers)
    ELSE \E o \in TutorOutcomes : AskTutorFinish(req, o)

\* The cache keys the step writes.
Written == {key \in DOMAIN quiz_cache' :
               key \notin DOMAIN quiz_cache \/ quiz_cache'[key] # quiz_cache[key]}

\* C27: a submit-quiz or ask-tutor handler that read the session before a
\* select-language replaced it, and resumes afterwards, leaves the new
\* session as it is, and the quiz it caches is stored under the id of the
\* old session only.
C27_StaleHandlerLeavesNewSession ==
    [][ \A req \in PendingOf("submit_quiz") \cup PendingOf("ask_tutor") :
          (req.sess # current_session /\ Resumed(req)) =>
              /\ current_session' = current_session
              /\ sessions'[current_session] = sessions[current_session]
              /\ \A key \in Written :
                    /\ key[1] = sessions[req.sess].session_id
                    /\ key[1] # sessions[current_session].session_id ]_vars

\* A submission read in session 1 was graded as passed after session 2
\* replaced it: session 2 is untouched and the quiz is under the old id.
C27_Witness ==
    /\ current_session = 2
    /\ resp.op = "submit_quiz"
    /\ Verdict(resp.reply, TRUE)
    /\ sessions[2].current_lesson = 1
    /\ sessions[2].completed_lessons = << >>
    /\ sessions[2].chat_history = << >>
    /\ DOMAIN quiz_cache = {CacheKey(1, 1)}

\* The same for a question asked in session 1.
C27_TutorWitness ==
    /\ current_session = 2
    /\ resp.op = "ask_tutor"
    /\ sessions[2].chat_history = << >>
    /\ sessions[2].completed_lessons = << >>

====
